---- MODULE Spec2Model ----
(***************************************************************************)
(* CDK2Git: a Flask front end (app.py) over one module-level GitHandler    *)
(* (git_handler.py) that synthesizes a project with CDKTFHandler           *)
(* (cdktf_handler.py) and serves the result over the git smart-HTTP fetch  *)
(* protocol.  Byte strings are sequences of integers 0..255, text is a     *)
(* sequence of code points.                                                *)
(***************************************************************************)
EXTENDS Integers, Sequences, FiniteSets, TLC

VARIABLES
    project_path,   \* GitHandler.project_path of the module-level git_handler
    req,            \* per request: the handler's locals and its position
    fs,             \* the scratch directories that exist on disk
    world,          \* per project: what its main.py does when synthesized
    bodies,         \* the request bodies that clients post
    fn_in,          \* argument of the function under check: <<[len, seed]>> names Data(len, seed)
    fn_out          \* its result

vars == <<project_path, req, fs, world, bodies, fn_in, fn_out>>

None == "None"

(***************************************************************************)
(* Python primitives                                                       *)
(***************************************************************************)
Min(a, b) == IF a < b THEN a ELSE b

Max(a, b) == IF a > b THEN a ELSE b

\* s[a:b] with Python's treatment of negative and out-of-range indices
PySlice(s, a, b) ==
    LET n  == Len(s)
        lo == IF a < 0 THEN Max(a + n, 0) ELSE Min(a, n)
        hi == IF b < 0 THEN Max(b + n, 0) ELSE Min(b, n)
    IN  IF lo >= hi THEN <<>> ELSE SubSeq(s, lo + 1, hi)

\* s.startswith(p)
startswith(s, p) == Len(s) >= Len(p) /\ SubSeq(s, 1, Len(p)) = p

\* s.find(x): index of the first x, or -1
find(s, x) ==
    IF \E i \in 1..Len(s) : s[i] = x
    THEN (CHOOSE i \in 1..Len(s) : s[i] = x /\ \A j \in 1..(i - 1) : s[j] # x) - 1
    ELSE -1

HexDigit(n) == IF n < 10 THEN 48 + n ELSE 87 + n

RECURSIVE Hex(_)
Hex(n) == IF n < 16 THEN <<HexDigit(n)>> ELSE Hex(n \div 16) \o <<HexDigit(n % 16)>>

\* f"{n:04x}" for n >= 0: lowercase hex, zero-padded to at least 4 digits
Fmt04x(n) ==
    LET h == Hex(n)
    IN  [i \in 1..Max(0, 4 - Len(h)) |-> 48] \o h

RECURSIVE DecStr(_)
\* str(n) for n >= 0
DecStr(n) == IF n < 10 THEN <<48 + n>> ELSE DecStr(n \div 10) \o <<48 + (n % 10)>>

\* one code point as UTF-8 (code points below 0x800)
Utf8Char(cp) == IF cp < 128 THEN <<cp>> ELSE <<192 + (cp \div 64), 128 + (cp % 64)>>

RECURSIVE FlattenRange(_, _, _)
FlattenRange(ss, lo, hi) ==
    IF lo > hi THEN <<>>
    ELSE IF lo = hi THEN ss[lo]
    ELSE LET mid == (lo + hi) \div 2
         IN  FlattenRange(ss, lo, mid) \o FlattenRange(ss, mid + 1, hi)

\* b''.join(ss)
Flatten(ss) == FlattenRange(ss, 1, Len(ss))

\* str.encode('utf-8')
encode_utf8(text) == Flatten([i \in 1..Len(text) |-> Utf8Char(text[i])])

\* struct.pack('>I', n)
BE32(n) == <<(n \div 16777216) % 256, (n \div 65536) % 256, (n \div 256) % 256, n % 256>>

\* a < b for two strings (Python compares code point by code point)
LexLess(a, b) ==
    \E i \in 1..(Min(Len(a), Len(b)) + 1) :
        /\ \A j \in 1..(i - 1) : a[j] = b[j]
        /\ IF i > Len(a) THEN i <= Len(b)
           ELSE i <= Len(b) /\ a[i] < b[i]

\* insert x into the sorted list s after every element whose key is not greater
RECURSIVE InsertSorted(_, _)
InsertSorted(x, s) ==
    IF s = <<>> THEN <<x>>
    ELSE IF LexLess(x[1], Head(s)[1]) THEN <<x>> \o s
    ELSE <<Head(s)>> \o InsertSorted(x, Tail(s))

RECURSIVE SortedFrom(_, _)
SortedFrom(s, acc) ==
    IF s = <<>> THEN acc ELSE SortedFrom(Tail(s), InsertSorted(Head(s), acc))

\* sorted(s, key=lambda x: x[0]): stable, ascending on the first component
sorted(s) == SortedFrom(s, <<>>)

(***************************************************************************)
(* hashlib.sha1 and zlib.compress.  SHA-1 is represented by a 20-byte      *)
(* digest computed from the length and two position-weighted sums of the   *)
(* input: deterministic, fixed width, and different for all the byte       *)
(* strings the model digests.  zlib.compress is represented by the         *)
(* RFC 1950 stream that carries its input in one stored deflate block      *)
(* with the Adler-32 checksum; inflating it gives the input back.          *)
(***************************************************************************)
RECURSIVE RangeSum(_, _, _)
RangeSum(b, lo, hi) ==
    IF lo > hi THEN 0
    ELSE IF lo = hi THEN b[lo]
    ELSE LET mid == (lo + hi) \div 2
         IN  RangeSum(b, lo, mid) + RangeSum(b, mid + 1, hi)

RECURSIVE RangeWSum(_, _, _)
\* sum of i * b[i]
RangeWSum(b, lo, hi) ==
    IF lo > hi THEN 0
    ELSE IF lo = hi THEN lo * b[lo]
    ELSE LET mid == (lo + hi) \div 2
         IN  RangeWSum(b, lo, mid) + RangeWSum(b, mid + 1, hi)

\* hashlib.sha1(b).digest()
sha1(b) ==
    LET n == Len(b)
        A == RangeSum(b, 1, n) % 65521
        B == RangeWSum(b, 1, n) % 65521
    IN  [k \in 1..20 |->
            (A * k + (A \div 256) * (k + 3) + B * (k * k + 1)
               + (B \div 256) * (2 * k + 1) + n * (k + 7)) % 256]

\* hashlib.sha1(b).hexdigest()
hexdigest(b) ==
    LET d == sha1(b)
    IN  [i \in 1..40 |->
            IF i % 2 = 1 THEN HexDigit(d[(i + 1) \div 2] \div 16)
            ELSE HexDigit(d[i \div 2] % 16)]

HexVal(c) == IF c >= 97 THEN c - 87 ELSE IF c >= 65 THEN c - 55 ELSE c - 48

\* bytes.fromhex(h)
bytes_fromhex(h) == [k \in 1..(Len(h) \div 2) |-> 16 * HexVal(h[2 * k - 1]) + HexVal(h[2 * k])]

adler32(b) ==
    LET n  == Len(b)
        s1 == (1 + RangeSum(b, 1, n)) % 65521
        s2 == (n + (n + 1) * RangeSum(b, 1, n) - RangeWSum(b, 1, n)) % 65521
    IN  <<s2 \div 256, s2 % 256, s1 \div 256, s1 % 256>>

\* zlib.compress(content)
zlib_compress(content) ==
    LET n == Len(content)
    IN  <<120, 156, 1, n % 256, n \div 256, 255 - (n % 256), 255 - (n \div 256)>>
        \o content \o adler32(content)

(***************************************************************************)
(* Literals of git_handler.py                                              *)
(***************************************************************************)
MODE == <<49, 48, 48, 54, 52, 52>>                       \* b'100644'

BLOB_TAG == <<98, 108, 111, 98, 32>>                     \* b'blob '

TREE_TAG == <<116, 114, 101, 101, 32>>                   \* b'tree '

COMMIT_TAG == <<99, 111, 109, 109, 105, 116, 32>>        \* b'commit '

\* 'author CDK2Git <cdk2git@example.com> 1701926400 +0000'
AUTHOR_LINE == <<97, 117, 116, 104, 111, 114, 32, 67, 68, 75, 50, 71, 105, 116, 32, 60, 99, 100, 107, 50, 103, 105, 116, 64, 101, 120, 97, 109, 112, 108, 101, 46, 99, 111, 109, 62, 32, 49, 55, 48, 49, 57, 50, 54, 52, 48, 48, 32, 43, 48, 48, 48, 48>>

\* 'committer CDK2Git <cdk2git@example.com> 1701926400 +0000'
COMMITTER_LINE == <<99, 111, 109, 109, 105, 116, 116, 101, 114, 32, 67, 68, 75, 50, 71, 105, 116, 32, 60, 99, 100, 107, 50, 103, 105, 116, 64, 101, 120, 97, 109, 112, 108, 101, 46, 99, 111, 109, 62, 32, 49, 55, 48, 49, 57, 50, 54, 52, 48, 48, 32, 43, 48, 48, 48, 48>>

\* 'Initial commit - CDKTF synthesis output'
COMMIT_MESSAGE == <<73, 110, 105, 116, 105, 97, 108, 32, 99, 111, 109, 109, 105, 116, 32, 45, 32, 67, 68, 75, 84, 70, 32, 115, 121, 110, 116, 104, 101, 115, 105, 115, 32, 111, 117, 116, 112, 117, 116>>

PACK_MAGIC == <<80, 65, 67, 75>>                         \* b'PACK'

WANT_TAG == <<119, 97, 110, 116, 32>>                    \* b'want '

NAK == <<78, 65, 75, 10>>                                \* b"NAK\n"

FLUSH == <<48, 48, 48, 48>>                              \* b"0000"

\* "# service=git-upload-pack\n"
SERVICE == <<35, 32, 115, 101, 114, 118, 105, 99, 101, 61, 103, 105, 116, 45, 117, 112, 108, 111, 97, 100, 45, 112, 97, 99, 107, 10>>

\* the capability list of get_refs
CAPABILITIES == <<109, 117, 108, 116, 105, 95, 97, 99, 107, 32, 116, 104, 105, 110, 45, 112, 97, 99, 107, 32, 115, 105, 100, 101, 45, 98, 97, 110, 100, 32, 115, 105, 100, 101, 45, 98, 97, 110, 100, 45, 54, 52, 107, 32, 111, 102, 115, 45, 100, 101, 108, 116, 97, 32, 115, 104, 97, 108, 108, 111, 119, 32, 100, 101, 101, 112, 101, 110, 45, 115, 105, 110, 99, 101, 32, 100, 101, 101, 112, 101, 110, 45, 110, 111, 116, 32, 100, 101, 101, 112, 101, 110, 45, 114, 101, 108, 97, 116, 105, 118, 101, 32, 110, 111, 45, 112, 114, 111, 103, 114, 101, 115, 115, 32, 105, 110, 99, 108, 117, 100, 101, 45, 116, 97, 103, 32, 109, 117, 108, 116, 105, 95, 97, 99, 107, 95, 100, 101, 116, 97, 105, 108, 101, 100, 32, 115, 121, 109, 114, 101, 102, 61, 72, 69, 65, 68, 58, 114, 101, 102, 115, 47, 104, 101, 97, 100, 115, 47, 109, 97, 105, 110, 32, 97, 103, 101, 110, 116, 61, 103, 105, 116, 47, 50, 46, 52, 51, 46, 48>>

HEAD_SUFFIX == <<32, 72, 69, 65, 68>>                    \* " HEAD"

\* " refs/heads/main\n"
MAIN_SUFFIX == <<32, 114, 101, 102, 115, 47, 104, 101, 97, 100, 115, 47, 109, 97, 105, 110, 10>>

\* "0" * 40
ZERO_HASH == [i \in 1..40 |-> 48]

chunk_size == 65519

(***************************************************************************)
(* GitHandler: objects                                                     *)
(***************************************************************************)
\* create_blob(content) -> (blob_hash, blob_store)
create_blob(content) ==
    LET data       == encode_utf8(content)
        blob_store == BLOB_TAG \o DecStr(Len(data)) \o <<0>> \o data
    IN  <<hexdigest(blob_store), blob_store>>

\* one entry of the tree payload: mode, path, null byte, 20-byte hash
TreeEntry(o) == MODE \o <<32>> \o encode_utf8(o[1]) \o <<0>> \o bytes_fromhex(o[2])

\* create_tree that keeps the entries in the order given
create_tree_unsorted(objects) ==
    LET tree_data  == Flatten([i \in 1..Len(objects) |-> TreeEntry(objects[i])])
        tree_store == TREE_TAG \o DecStr(Len(tree_data)) \o <<0>> \o tree_data
    IN  <<hexdigest(tree_store), tree_store>>

\* create_tree(objects) -> (tree_hash, tree_store); objects: (path, hash, blob)
create_tree(objects) ==
    LET sorted_objects == sorted(objects)
        tree_data  == Flatten([i \in 1..Len(sorted_objects) |-> TreeEntry(sorted_objects[i])])
        tree_store == TREE_TAG \o DecStr(Len(tree_data)) \o <<0>> \o tree_data
    IN  <<hexdigest(tree_store), tree_store>>

\* create_commit(tree_hash) -> (commit_hash, commit_store)
create_commit(tree_hash) ==
    LET commit_data  == encode_utf8(TREE_TAG \o tree_hash \o <<10>> \o AUTHOR_LINE \o <<10>>
                                    \o COMMITTER_LINE \o <<10>> \o <<10>> \o COMMIT_MESSAGE)
        commit_store == COMMIT_TAG \o DecStr(Len(commit_data)) \o <<0>> \o commit_data
    IN  <<hexdigest(commit_store), commit_store>>

(***************************************************************************)
(* GitHandler: pack file                                                   *)
(***************************************************************************)
\* the type of a stored object, from its store prefix
ObjType(content) ==
    IF startswith(content, COMMIT_TAG) THEN 1
    ELSE IF startswith(content, TREE_TAG) THEN 2
    ELSE 3

\* the store kept whole, header included
StripHeader_keep(content) == content

\* the content after the store header (after the first null byte)
StripHeader(content) ==
    LET null_pos == find(content, 0)
    IN  IF null_pos # -1 THEN PySlice(content, null_pos + 1, Len(content)) ELSE content

RECURSIVE SizeLoop(_, _)
\* while size > 0: append(0x80 | c); c = size & 0x7f; size >>= 7 ... append(c)
SizeLoop(c, size) ==
    IF size > 0 THEN <<128 + (c % 128)>> \o SizeLoop(size % 128, size \div 128)
    ELSE <<c>>

\* the header with the size shifted by 7 bits after the first byte, not 4
ObjHeader_shift7(obj_type, size) == SizeLoop(obj_type * 16 + (size % 16), size \div 128)

\* the type and size header of one pack entry
ObjHeader(obj_type, size) == SizeLoop(obj_type * 16 + (size % 16), size \div 16)

\* one pack entry: header and compressed content
PackEntry(o) ==
    LET content == StripHeader(o[2])
    IN  ObjHeader(ObjType(o[2]), Len(content)) \o zlib_compress(content)

\* create_packfile with the checksum taken over the entries only, not the header
create_packfile_checksum_skips_header(objects) ==
    LET header == PACK_MAGIC \o BE32(2) \o BE32(Len(objects))
        data   == Flatten([i \in 1..Len(objects) |-> PackEntry(objects[i])])
    IN  header \o data \o sha1(data)

\* create_packfile(objects) -> bytes; objects: (hash, store)
create_packfile(objects) ==
    LET header == PACK_MAGIC \o BE32(2) \o BE32(Len(objects))
        data   == Flatten([i \in 1..Len(objects) |-> PackEntry(objects[i])])
        pack   == header \o data
    IN  pack \o sha1(pack)

(***************************************************************************)
(* GitHandler: side-band and response framing                              *)
(***************************************************************************)
\* a packet whose length field counts the band byte it does not carry
SideBandPacket_no_band(chunk, band) == Fmt04x(Len(chunk) + 5) \o chunk

\* the packet of one chunk: [len][band][data]
SideBandPacket(chunk, band) == Fmt04x(Len(chunk) + 5) \o <<band>> \o chunk

RECURSIVE SideBandFrom(_, _, _)
\* for i in range(i, len(data), chunk_size): ...
SideBandFrom(data, band, i) ==
    IF i >= Len(data) THEN <<>>
    ELSE SideBandPacket(PySlice(data, i, i + chunk_size), band)
         \o SideBandFrom(data, band, i + chunk_size)

\* format_side_band(data, band)
format_side_band(data, band) == SideBandFrom(data, band, 0) \o FLUSH

\* format_pack_response(pack_data)
format_pack_response(pack_data) ==
    Fmt04x(Len(NAK) + 4) \o NAK \o format_side_band(pack_data, 1)

(***************************************************************************)
(* GitHandler.parse_request                                                *)
(***************************************************************************)
IsSpace(c) == c \in {9, 10, 11, 12, 13, 32}

IsHexChar(c) == (c >= 48 /\ c <= 57) \/ (c >= 97 /\ c <= 102) \/ (c >= 65 /\ c <= 70)

\* s.strip() as int() applies it
Strip(s) ==
    IF \A i \in 1..Len(s) : IsSpace(s[i]) THEN <<>>
    ELSE LET lo == CHOOSE i \in 1..Len(s) : ~IsSpace(s[i]) /\ \A j \in 1..(i - 1) : IsSpace(s[j])
             hi == CHOOSE i \in 1..Len(s) : ~IsSpace(s[i]) /\ \A j \in (i + 1)..Len(s) : IsSpace(s[j])
         IN  SubSeq(s, lo, hi)

\* digits with single underscores between them
ValidDigits(d) ==
    /\ Len(d) > 0
    /\ IsHexChar(d[1]) /\ IsHexChar(d[Len(d)])
    /\ \A i \in 1..Len(d) : IsHexChar(d[i]) \/ d[i] = 95
    /\ \A i \in 1..(Len(d) - 1) : ~(d[i] = 95 /\ d[i + 1] = 95)

RECURSIVE DigitsValue(_, _)
DigitsValue(d, acc) ==
    IF d = <<>> THEN acc
    ELSE IF Head(d) = 95 THEN DigitsValue(Tail(d), acc)
    ELSE DigitsValue(Tail(d), 16 * acc + HexVal(Head(d)))

\* int(text, 16): surrounding white space, a sign, a 0x prefix and single
\* underscores are accepted; ok is FALSE where int raises ValueError
int16(text) ==
    LET t        == Strip(text)
        signed   == t # <<>> /\ t[1] \in {43, 45}
        u        == IF signed THEN Tail(t) ELSE t
        prefixed == Len(u) >= 2 /\ u[1] = 48 /\ u[2] \in {120, 88}
        v        == IF prefixed THEN SubSeq(u, 3, Len(u)) ELSE u
        d        == IF prefixed /\ v # <<>> /\ v[1] = 95 THEN Tail(v) ELSE v
        value    == DigitsValue(d, 0)
    IN  IF ValidDigits(d)
        THEN [ok |-> TRUE, value |-> IF signed /\ t[1] = 45 THEN 0 - value ELSE value]
        ELSE [ok |-> FALSE, value |-> 0]

\* bytes.decode('ascii') succeeds
IsAscii(b) == \A i \in 1..Len(b) : b[i] < 128

\* One iteration of the while loop of parse_request, entered with pos < len(data).
\* brk: the except branch was taken and the loop left.  pkt: <<packet>> when
\* the iteration assigned packet, <<>> when it did not.
parse_iteration(data, pos, wants) ==
    LET field  == PySlice(data, pos, pos + 4)
        length == int16(field)
    IN  IF ~IsAscii(field) \/ ~length.ok
        THEN [pos |-> pos, wants |-> wants, brk |-> TRUE, pkt |-> <<>>]
        ELSE IF length.value = 0
        THEN [pos |-> pos + 4, wants |-> wants, brk |-> FALSE, pkt |-> <<>>]
        ELSE LET packet == PySlice(data, pos + 4, pos + length.value)
                 id     == PySlice(packet, 5, 45)
             IN  IF startswith(packet, WANT_TAG)
                 THEN IF IsAscii(id)
                      THEN [pos |-> pos + length.value, wants |-> Append(wants, id),
                            brk |-> FALSE, pkt |-> <<packet>>]
                      ELSE [pos |-> pos, wants |-> wants, brk |-> TRUE, pkt |-> <<packet>>]
                 ELSE [pos |-> pos + length.value, wants |-> wants, brk |-> FALSE,
                       pkt |-> <<packet>>]

(***************************************************************************)
(* Projects and what CDKTFHandler.synthesize does with their main.py       *)
(***************************************************************************)
Requests == {"r1", "r2"}

Projects == {"P", "Q"}

File(path, content, readable) == [path |-> path, content |-> content, readable |-> readable]

hello_txt == <<104, 101, 108, 108, 111, 46, 116, 120, 116>>   \* "hello.txt"

a_txt == <<97, 46, 116, 120, 116>>                            \* "a.txt"

b_txt == <<98, 46, 116, 120, 116>>                            \* "b.txt"

hi == <<104, 105, 10>>                                        \* "hi\n"

cafe == <<99, 97, 102, 233>>                                  \* "café"

\* kind: absent (no main.py), raises (synthesize catches an exception),
\* no_stack (no MyStack class), no_outdir (cdktf.out missing after synth),
\* files (cdktf.out holds these files)
Project(kind, files) == [kind |-> kind, files |-> files]

W_absent == Project("absent", <<>>)

W_raises == Project("raises", <<>>)

W_no_stack == Project("no_stack", <<>>)

W_no_outdir == Project("no_outdir", <<>>)

W_empty == Project("files", <<>>)

W_hello == Project("files", <<File(hello_txt, hi, TRUE)>>)

W_ab == Project("files", <<File(b_txt, hi, TRUE), File(a_txt, cafe, TRUE)>>)

W_twins == Project("files", <<File(a_txt, hi, TRUE), File(b_txt, hi, TRUE)>>)

W_unreadable == Project("files", <<File(a_txt, hi, TRUE), File(b_txt, hi, FALSE)>>)

Worlds == {W_absent, W_raises, W_no_stack, W_no_outdir, W_empty, W_hello, W_ab,
           W_twins, W_unreadable}

\* request bodies of the fetch endpoint
want_a == <<48, 48, 51, 50>> \o WANT_TAG \o [i \in 1..40 |-> 97] \o <<10>>   \* "0032want aaa...a\n"

want_b == <<48, 48, 51, 50>> \o WANT_TAG \o [i \in 1..40 |-> 98] \o <<10>>   \* "0032want bbb...b\n"

done_pkt == <<48, 48, 48, 57, 100, 111, 110, 101, 10>>                        \* "0009done\n"

Bodies == { <<>>,
            FLUSH,
            want_a \o FLUSH \o done_pkt,
            want_a \o want_b \o FLUSH \o done_pkt,
            <<122, 122, 122, 122>>,                     \* "zzzz"
            FLUSH \o <<45, 48, 48, 52>> }               \* "0000-004"

\* the scratch directory of request r (tempfile.mkdtemp) and its cdktf.out
TempDir(r) == [req |-> r, sub |-> "tmp"]

OutDir(r) == [req |-> r, sub |-> "cdktf.out"]

\* shutil.rmtree(d)
rmtree(disk, d) == IF d.sub = "tmp" THEN {x \in disk : x.req # d.req} ELSE disk \ {d}

\* CDKTFHandler.synthesize(cdktf_code) run by request r on the code of a
\* project; ret: <<>> for None, else <<synth_dir>>
synthesize(r, code, disk) ==
    LET made == disk \cup {TempDir(r)}
    IN  CASE code.kind = "raises"    -> [ret |-> <<>>, disk |-> rmtree(made, TempDir(r))]
          [] code.kind = "no_stack"  -> [ret |-> <<>>, disk |-> made]
          [] code.kind = "no_outdir" -> [ret |-> <<>>, disk |-> made]
          [] OTHER                   -> [ret |-> <<OutDir(r)>>, disk |-> made \cup {OutDir(r)}]

\* the finally block of get_refs and generate_pack
cleanup(synth_dir, disk) ==
    IF synth_dir # <<>> /\ synth_dir[1] \in disk THEN rmtree(disk, synth_dir[1]) ELSE disk

\* the orders in which os.walk may list n files
Orders(n) == {p \in [1..n -> 1..n] : \A i, j \in 1..n : p[i] = p[j] => i = j}

\* the (rel_path, hash, blob) list built from the files read in order p
ReadObjects(files, p) ==
    [i \in 1..Len(files) |->
        LET f == files[p[i]]
            b == create_blob(f.content)
        IN  <<f.path, b[1], b[2]>>]

(***************************************************************************)
(* State                                                                   *)
(***************************************************************************)
NewRequest(pc) ==
    [ pc        |-> pc,        \* idle, parse, synth, build, encode, format, finally,
                               \* respond, refs_synth, refs_build, refs_finally, done, off
      kind      |-> None,      \* "refs" (info_refs) or "fetch" (git_upload_pack)
      project   |-> None,      \* the project of the URL
      header_ok |-> TRUE,      \* the content type (fetch) or service (refs) is the expected one
      body      |-> <<>>,      \* request.data
      pos       |-> 0,         \* parse_request: pos
      wants     |-> <<>>,      \* parse_request: wants
      packet    |-> <<>>,      \* parse_request: packet, as last assigned
      code      |-> None,      \* the project whose main.py was read
      made      |-> FALSE,     \* synthesize ran tempfile.mkdtemp
      synth_dir |-> <<>>,      \* <<>> for None, else <<path>>
      objects   |-> <<>>,      \* (rel_path, hash, blob)
      tree      |-> <<>>,      \* (tree_hash, tree_store)
      commit    |-> <<>>,      \* (commit_hash, commit_store)
      commit_hash |-> <<>>,    \* get_refs: the identity to advertise
      pack_data |-> <<>>,
      result    |-> <<>>,      \* <<>> for None, else <<bytes>>
      failure   |-> None,      \* why generate_pack returns None / get_refs uses zeros
      raised    |-> FALSE,     \* an exception left GitHandler
      status    |-> 0,         \* HTTP status of the response, 0 before it
      stages    |-> <<>> ]     \* the stages of generate_pack entered so far

Init ==
    /\ project_path = None
    /\ req = [r \in Requests |-> NewRequest("idle")]
    /\ fs = {}
    /\ world = [p \in Projects |-> IF p = "P" THEN W_hello ELSE W_ab]
    /\ bodies = {FLUSH, want_a \o FLUSH \o done_pkt}
    /\ fn_in = <<>>
    /\ fn_out = <<>>

\* one request at a time, against every kind of project
InitSingle ==
    /\ project_path = None
    /\ req = [r \in Requests |-> IF r = "r1" THEN NewRequest("idle") ELSE NewRequest("off")]
    /\ fs = {}
    /\ \E w \in Worlds : world = [p \in Projects |-> IF p = "P" THEN w ELSE W_ab]
    /\ bodies = Bodies
    /\ fn_in = <<>>
    /\ fn_out = <<>>

\* set_project_path(project_path)
set_project_path(project) == project_path' = project

\* get_project_dir(): the project named by the handler's project_path now
get_project_dir == project_path

\* not value, for an optional byte string
Falsy(opt) == opt = <<>> \/ opt[1] = <<>>

(***************************************************************************)
(* app.git_upload_pack and GitHandler.generate_pack                        *)
(***************************************************************************)
Enter(q, pc, stage) == [q EXCEPT !.pc = pc, !.stages = Append(@, stage)]

\* return None inside the try block of generate_pack
ReturnNone(q, why) == [q EXCEPT !.pc = "finally", !.result = <<>>, !.failure = why]

\* except Exception of generate_pack: log and return None
generate_pack_except(q) == ReturnNone(q, "exception")

\* generate_pack without its "if not wants" gate
ParseReturn_no_gate(q, wants) == Enter([q EXCEPT !.wants = wants], "synth", "Synthesize")

\* wants = self.parse_request(request_data); if not wants: return None
ParseReturn(q, wants) ==
    IF wants = <<>>
    THEN [q EXCEPT !.pc = "respond", !.wants = wants, !.result = <<>>, !.failure = "no_wants"]
    ELSE Enter([q EXCEPT !.wants = wants], "synth", "Synthesize")

\* POST /<project>/git-upload-pack: the content type check, set_project_path,
\* and the call of generate_pack(request.data)
git_upload_pack(r) ==
    /\ req[r].pc = "idle"
    /\ \E project \in Projects, content_type_ok \in BOOLEAN, body \in bodies :
        IF ~content_type_ok
        THEN /\ req' = [req EXCEPT ![r] = [@ EXCEPT !.pc = "done", !.kind = "fetch",
                                             !.project = project, !.header_ok = FALSE,
                                             !.status = 400]]
             /\ UNCHANGED project_path
        ELSE /\ set_project_path(project)
             /\ req' = [req EXCEPT ![r] = Enter([@ EXCEPT !.kind = "fetch", !.project = project,
                                                    !.body = body], "parse", "ParseRequest")]
    /\ UNCHANGED <<fs, world, bodies, fn_in, fn_out>>

\* an iteration whose break throws away the wants found so far
AfterIteration_discard(q, it) ==
    IF it.brk THEN ParseReturn(q, <<>>)
    ELSE [q EXCEPT !.pos = it.pos, !.wants = it.wants]

\* the request after one iteration it of the loop of parse_request: packet
\* as assigned, then either the loop is left (break) or pos and wants move on
AfterIteration(q, it) ==
    LET p == IF it.pkt = <<>> THEN q ELSE [q EXCEPT !.packet = it.pkt[1]]
    IN  IF it.brk THEN ParseReturn(p, it.wants)
        ELSE [p EXCEPT !.pos = it.pos, !.wants = it.wants]

\* one iteration of the while loop of parse_request
parse_request_step(r) ==
    /\ req[r].pc = "parse"
    /\ req[r].pos < Len(req[r].body)
    /\ req' = [req EXCEPT ![r] =
                 AfterIteration(@, parse_iteration(req[r].body, req[r].pos, req[r].wants))]
    /\ UNCHANGED <<project_path, fs, world, bodies, fn_in, fn_out>>

\* the loop condition of parse_request fails: return wants
parse_request_return(r) ==
    /\ req[r].pc = "parse"
    /\ req[r].pos >= Len(req[r].body)
    /\ req' = [req EXCEPT ![r] = ParseReturn(@, @.wants)]
    /\ UNCHANGED <<project_path, fs, world, bodies, fn_in, fn_out>>

\* generate_pack: get_project_dir, main.py, cdktf_handler.synthesize
generate_pack_synthesize(r) ==
    /\ req[r].pc = "synth"
    /\ LET dir == get_project_dir
       IN  IF dir = None
           THEN /\ req' = [req EXCEPT ![r] = generate_pack_except(@)]
                /\ UNCHANGED fs
           ELSE IF world[dir].kind = "absent"
           THEN /\ req' = [req EXCEPT ![r] = ReturnNone(@, "no_main")]
                /\ UNCHANGED fs
           ELSE LET s == synthesize(r, world[dir], fs)
                    q == [req[r] EXCEPT !.code = dir, !.made = TRUE, !.synth_dir = s.ret]
                IN  /\ fs' = s.disk
                    /\ req' = [req EXCEPT ![r] =
                                 IF s.ret = <<>> THEN ReturnNone(q, "synth_none")
                                 ELSE Enter(q, "build", "BuildObjects")]
    /\ UNCHANGED <<project_path, world, bodies, fn_in, fn_out>>

\* generate_pack: walk synth_dir, one blob per file, the tree and the commit
generate_pack_build(r) ==
    /\ req[r].pc = "build"
    /\ LET files == world[req[r].code].files
       IN  \E p \in Orders(Len(files)) :
            IF \E i \in 1..Len(files) : ~files[i].readable
            THEN req' = [req EXCEPT ![r] = generate_pack_except(@)]
            ELSE LET objects == ReadObjects(files, p)
                     tree    == create_tree(objects)
                     commit  == create_commit(tree[1])
                 IN  IF objects = <<>>
                     THEN req' = [req EXCEPT ![r] = ReturnNone(@, "no_files")]
                     ELSE req' = [req EXCEPT ![r] =
                                    Enter([@ EXCEPT !.objects = objects, !.tree = tree,
                                                    !.commit = commit], "encode", "EncodePack")]
    /\ UNCHANGED <<project_path, fs, world, bodies, fn_in, fn_out>>

\* pack_objects left in the order the files were read
pack_objects_unsorted(objects, tree, commit) ==
    [i \in 1..Len(objects) |-> <<objects[i][2], objects[i][3]>>] \o <<tree>> \o <<commit>>

\* pack_objects: every blob, the tree, the commit, sorted by hash
pack_objects(objects, tree, commit) ==
    sorted([i \in 1..Len(objects) |-> <<objects[i][2], objects[i][3]>>] \o <<tree>> \o <<commit>>)

\* generate_pack: pack_data = self.create_packfile(pack_objects)
generate_pack_encode(r) ==
    /\ req[r].pc = "encode"
    /\ LET q == req[r]
       IN  req' = [req EXCEPT ![r] =
                     Enter([q EXCEPT !.pack_data =
                                create_packfile(pack_objects(q.objects, q.tree, q.commit))],
                           "format", "FormatResponse")]
    /\ UNCHANGED <<project_path, fs, world, bodies, fn_in, fn_out>>

\* generate_pack: return self.format_pack_response(pack_data)
generate_pack_format(r) ==
    /\ req[r].pc = "format"
    /\ req' = [req EXCEPT ![r] = [@ EXCEPT !.pc = "finally",
                                     !.result = <<format_pack_response(req[r].pack_data)>>]]
    /\ UNCHANGED <<project_path, fs, world, bodies, fn_in, fn_out>>

\* generate_pack: the finally block, then the return to git_upload_pack
generate_pack_finally(r) ==
    /\ req[r].pc = "finally"
    /\ fs' = cleanup(req[r].synth_dir, fs)
    /\ req' = [req EXCEPT ![r].pc = "respond"]
    /\ UNCHANGED <<project_path, world, bodies, fn_in, fn_out>>

\* the status git_upload_pack answers with for the value of generate_pack
upload_pack_status(pack_data) == IF Falsy(pack_data) THEN 500 ELSE 200

\* git_upload_pack: the response
git_upload_pack_respond(r) ==
    /\ req[r].pc = "respond"
    /\ req' = [req EXCEPT ![r] = [@ EXCEPT !.pc = "done",
                                     !.status = upload_pack_status(req[r].result)]]
    /\ UNCHANGED <<project_path, fs, world, bodies, fn_in, fn_out>>

(***************************************************************************)
(* app.info_refs and GitHandler.get_refs                                   *)
(***************************************************************************)
\* commit_hash = "0" * 40 in the try block of get_refs
ZeroRefs(q, why) == [q EXCEPT !.pc = "refs_finally", !.commit_hash = ZERO_HASH, !.failure = why]

\* get_refs without its except clause: the exception leaves get_refs
get_refs_except_propagates(q) == [q EXCEPT !.pc = "refs_finally", !.raised = TRUE]

\* except Exception of get_refs: log, commit_hash = "0" * 40
get_refs_except(q) == ZeroRefs(q, "exception")

\* a packet-line whose length field leaves out its own 4 bytes
PktLine_len_without_prefix(payload) == Fmt04x(Len(payload)) \o payload

\* one packet-line: 4 hex digits of len + 4, then the payload
PktLine(payload) == Fmt04x(Len(payload) + 4) \o payload

\* an advertisement whose refs/heads/main line names another identity than
\* its HEAD line
advertisement_main_differs(commit_hash) ==
    LET head_line == commit_hash \o HEAD_SUFFIX \o <<0>> \o CAPABILITIES \o <<10>>
        main_line == ZERO_HASH \o MAIN_SUFFIX
    IN  encode_utf8(PktLine(SERVICE) \o FLUSH \o PktLine(head_line) \o PktLine(main_line) \o FLUSH)

\* get_refs: the advertisement for commit_hash
advertisement(commit_hash) ==
    LET head_line == commit_hash \o HEAD_SUFFIX \o <<0>> \o CAPABILITIES \o <<10>>
        main_line == commit_hash \o MAIN_SUFFIX
    IN  encode_utf8(PktLine(SERVICE) \o FLUSH \o PktLine(head_line) \o PktLine(main_line) \o FLUSH)

\* GET /<project>/info/refs: the service check, set_project_path, get_refs()
info_refs(r) ==
    /\ req[r].pc = "idle"
    /\ \E project \in Projects, service_ok \in BOOLEAN :
        IF ~service_ok
        THEN /\ req' = [req EXCEPT ![r] = [@ EXCEPT !.pc = "done", !.kind = "refs",
                                             !.project = project, !.header_ok = FALSE,
                                             !.status = 400]]
             /\ UNCHANGED project_path
        ELSE /\ set_project_path(project)
             /\ req' = [req EXCEPT ![r] = [@ EXCEPT !.pc = "refs_synth", !.kind = "refs",
                                             !.project = project]]
    /\ UNCHANGED <<fs, world, bodies, fn_in, fn_out>>

\* get_refs: get_project_dir, open main.py, cdktf_handler.synthesize
get_refs_synthesize(r) ==
    /\ req[r].pc = "refs_synth"
    /\ LET dir == get_project_dir
       IN  IF dir = None \/ world[dir].kind = "absent"
           THEN /\ req' = [req EXCEPT ![r] = get_refs_except(@)]
                /\ UNCHANGED fs
           ELSE LET s == synthesize(r, world[dir], fs)
                    q == [req[r] EXCEPT !.code = dir, !.made = TRUE, !.synth_dir = s.ret]
                IN  /\ fs' = s.disk
                    /\ req' = [req EXCEPT ![r] =
                                 IF s.ret = <<>> THEN ZeroRefs(q, "synth_none")
                                 ELSE [q EXCEPT !.pc = "refs_build"]]
    /\ UNCHANGED <<project_path, world, bodies, fn_in, fn_out>>

\* get_refs: walk synth_dir, blobs, tree, commit
get_refs_build(r) ==
    /\ req[r].pc = "refs_build"
    /\ LET files == world[req[r].code].files
       IN  \E p \in Orders(Len(files)) :
            IF \E i \in 1..Len(files) : ~files[i].readable
            THEN req' = [req EXCEPT ![r] = get_refs_except(@)]
            ELSE LET objects == ReadObjects(files, p)
                     tree    == create_tree(objects)
                     commit  == create_commit(tree[1])
                 IN  IF objects = <<>>
                     THEN req' = [req EXCEPT ![r] = ZeroRefs(@, "no_files")]
                     ELSE req' = [req EXCEPT ![r] =
                                    [@ EXCEPT !.pc = "refs_finally", !.objects = objects,
                                              !.tree = tree, !.commit = commit,
                                              !.commit_hash = commit[1]]]
    /\ UNCHANGED <<project_path, fs, world, bodies, fn_in, fn_out>>

\* get_refs: the finally block and the advertisement; info_refs: the response.
\* An exception that left get_refs is answered by handle_error (500).
get_refs_finally(r) ==
    /\ req[r].pc = "refs_finally"
    /\ fs' = cleanup(req[r].synth_dir, fs)
    /\ req' = [req EXCEPT ![r] =
                 IF @.raised THEN [@ EXCEPT !.pc = "done", !.status = 500]
                 ELSE [@ EXCEPT !.pc = "done", !.status = 200,
                                !.result = <<advertisement(req[r].commit_hash)>>]]
    /\ UNCHANGED <<project_path, world, bodies, fn_in, fn_out>>

(***************************************************************************)
(* Specifications                                                          *)
(***************************************************************************)
Next ==
    \E r \in Requests :
        \/ git_upload_pack(r)
        \/ parse_request_step(r)
        \/ parse_request_return(r)
        \/ generate_pack_synthesize(r)
        \/ generate_pack_build(r)
        \/ generate_pack_encode(r)
        \/ generate_pack_format(r)
        \/ generate_pack_finally(r)
        \/ git_upload_pack_respond(r)
        \/ info_refs(r)
        \/ get_refs_synthesize(r)
        \/ get_refs_build(r)
        \/ get_refs_finally(r)

\* the server with its two requests in flight, projects P and Q
Spec == Init /\ [][Next]_vars

\* one request, against each kind of project
SpecSingle == InitSingle /\ [][Next]_vars

\* the bodies of two fetches that name different identities, or more of them
PairBodies == { want_a, want_b \o want_a }

\* two fetches at a time against one synthesis output of two files, which
\* os.walk may list in either order
InitPair ==
    /\ project_path = None
    /\ req = [r \in Requests |-> NewRequest("idle")]
    /\ fs = {}
    /\ world = [p \in Projects |-> W_ab]
    /\ bodies = PairBodies
    /\ fn_in = <<>>
    /\ fn_out = <<>>

NextFetch ==
    \E r \in Requests :
        \/ git_upload_pack(r)
        \/ parse_request_step(r)
        \/ parse_request_return(r)
        \/ generate_pack_synthesize(r)
        \/ generate_pack_build(r)
        \/ generate_pack_encode(r)
        \/ generate_pack_format(r)
        \/ generate_pack_finally(r)
        \/ git_upload_pack_respond(r)

SpecPair == InitPair /\ [][NextFetch]_vars

\* a discovery and a fetch, against outputs of two files: identical ones
\* for project P, different ones for project Q
InitFollow ==
    /\ project_path = None
    /\ req = [r \in Requests |-> NewRequest("idle")]
    /\ fs = {}
    /\ world = [p \in Projects |-> IF p = "P" THEN W_twins ELSE W_ab]
    /\ bodies = {want_a}
    /\ fn_in = <<>>
    /\ fn_out = <<>>

SpecFollow == InitFollow /\ [][Next]_vars

(***************************************************************************)
(* parse_request on its own: request bodies made of up to MaxTokens pieces *)
(***************************************************************************)
MaxTokens == 3

Tokens ==
    { FLUSH,
      <<48, 48, 48, 52>>,                                         \* "0004"
      <<48, 48, 48, 56>>,                                         \* "0008"
      <<48, 48, 48, 49>>,                                         \* "0001"
      <<45, 48, 48, 52>>,                                         \* "-004"
      <<122, 122, 122, 122>>,                                     \* "zzzz"
      want_a,
      <<48, 48, 48, 99>> \o WANT_TAG \o <<97, 98, 99>>,           \* "000cwant abc"
      <<48, 48, 48, 97>> \o WANT_TAG \o <<255>> }                 \* "000awant \xff"

TokenBodies == UNION {{Flatten(ts) : ts \in [1..n -> Tokens]} : n \in 0..MaxTokens}

\* generate_pack has called parse_request(body)
InitParse ==
    /\ project_path = "P"
    /\ \E b \in TokenBodies :
         req = [r \in Requests |->
                  IF r = "r1"
                  THEN Enter([NewRequest("idle") EXCEPT !.kind = "fetch", !.project = "P",
                                                        !.body = b], "parse", "ParseRequest")
                  ELSE NewRequest("off")]
    /\ fs = {}
    /\ world = [p \in Projects |-> IF p = "P" THEN W_hello ELSE W_ab]
    /\ bodies = {}
    /\ fn_in = <<>>
    /\ fn_out = <<>>

NextParse == \E r \in Requests : parse_request_step(r) \/ parse_request_return(r)

SpecParse == InitParse /\ [][NextParse]_vars

(***************************************************************************)
(* format_side_band on its own: inputs around the multiples of chunk_size  *)
(***************************************************************************)
MaxChunks == 2

MaxSeed == 7

Lengths == {n \in {k * chunk_size + d : k \in 0..MaxChunks, d \in {-1, 0, 1}} : n >= 0}

Data(n, seed) == [i \in 1..n |-> (i * 7 + seed) % 256]

InitSideBand ==
    /\ project_path = None
    /\ req = [r \in Requests |-> NewRequest("off")]
    /\ fs = {}
    /\ world = [p \in Projects |-> W_absent]
    /\ bodies = {}
    /\ \E n \in Lengths, seed \in 0..MaxSeed : fn_in = <<[len |-> n, seed |-> seed]>>
    /\ fn_out = <<>>

\* fn_out = format_side_band(data), band left at its default of 1
call_format_side_band ==
    /\ fn_in # <<>>
    /\ fn_out = <<>>
    /\ fn_out' = <<format_side_band(Data(fn_in[1].len, fn_in[1].seed), 1)>>
    /\ UNCHANGED <<project_path, req, fs, world, bodies, fn_in>>

NextSideBand == call_format_side_band

SpecSideBand == InitSideBand /\ [][NextSideBand]_vars

(***************************************************************************)
(* parse_request on framed requests: bodies made of up to MaxPieces        *)
(* packet-lines, each framed as the server itself frames one               *)
(***************************************************************************)
MaxPieces == 3

id_a == [i \in 1..40 |-> 97]                                  \* "aaa...a"

id_b == [i \in 1..40 |-> 98]                                  \* "bbb...b"

id_mixed == [i \in 1..40 |-> HexDigit((i * 7) % 16)]          \* "7e5c3a18f6d4b290..."

FlushPiece == [kind |-> "flush", payload |-> <<>>, id |-> <<>>]

\* the payload "want <id><trailer>"
WantPiece(id, trailer) == [kind |-> "want", payload |-> WANT_TAG \o id \o trailer, id |-> id]

\* a payload that is no want line
DataPiece(payload) == [kind |-> "data", payload |-> payload, id |-> <<>>]

Pieces ==
    { FlushPiece,
      WantPiece(id_a, <<>>),
      WantPiece(id_b, <<10>>),
      \* " side-band-64k \xff\n"
      WantPiece(id_mixed, <<32, 115, 105, 100, 101, 45, 98, 97, 110, 100, 45, 54, 52, 107, 32, 255, 10>>),
      DataPiece(<<>>),
      DataPiece(<<100, 111, 110, 101, 10>>),                  \* "done\n"
      DataPiece(<<255, 0, 48, 48, 48, 48>>),                  \* "\xff\x000000"
      DataPiece([i \in 1..252 |-> (i * 5) % 256]) }           \* 252 bytes: length field "0100"

\* the bytes a piece is sent as
Frame(piece) == IF piece.kind = "flush" THEN FLUSH ELSE PktLine(piece.payload)

\* the request body of a list of pieces
FramedBody(pieces) == Flatten([i \in 1..Len(pieces) |-> Frame(pieces[i])])

PieceLists == UNION {[1..n -> Pieces] : n \in 0..MaxPieces}

\* generate_pack has called parse_request on a framed body; fn_in holds the
\* pieces the body was framed from
InitFrame ==
    /\ project_path = "P"
    /\ \E pieces \in PieceLists :
         /\ fn_in = <<pieces>>
         /\ req = [r \in Requests |->
                     IF r = "r1"
                     THEN Enter([NewRequest("idle") EXCEPT !.kind = "fetch", !.project = "P",
                                                           !.body = FramedBody(pieces)],
                                "parse", "ParseRequest")
                     ELSE NewRequest("off")]
    /\ fs = {}
    /\ world = [p \in Projects |-> IF p = "P" THEN W_hello ELSE W_ab]
    /\ bodies = {}
    /\ fn_out = <<>>

SpecFrame == InitFrame /\ [][NextParse]_vars

(***************************************************************************)
(* create_tree on its own: lists of up to MaxEntries entries with          *)
(* distinct paths, in every order                                          *)
(***************************************************************************)
MaxEntries == 3

\* "a.txt", "b.txt", "B.txt", "a", "é.txt"
TreePathSet == { a_txt, b_txt, <<66, 46, 116, 120, 116>>, <<97>>, <<233, 46, 116, 120, 116>> }

\* the (path, hash, blob) entry of a file at path; the content depends on the path
EntryOf(path) ==
    LET b == create_blob(IF Len(path) = 1 THEN cafe ELSE hi \o path)
    IN  <<path, b[1], b[2]>>

EntryLists ==
    UNION {{[i \in 1..n |-> EntryOf(ps[i])] :
               ps \in {f \in [1..n -> TreePathSet] : \A i, j \in 1..n : f[i] = f[j] => i = j}} :
           n \in 0..MaxEntries}

InitTree ==
    /\ project_path = None
    /\ req = [r \in Requests |-> NewRequest("off")]
    /\ fs = {}
    /\ world = [p \in Projects |-> W_absent]
    /\ bodies = {}
    /\ \E objects \in EntryLists : fn_in = <<objects>>
    /\ fn_out = <<>>

\* fn_out = create_tree(objects)
call_create_tree ==
    /\ fn_in # <<>>
    /\ fn_out = <<>>
    /\ fn_out' = <<create_tree(fn_in[1])>>
    /\ UNCHANGED <<project_path, req, fs, world, bodies, fn_in>>

NextTree == call_create_tree

SpecTree == InitTree /\ [][NextTree]_vars

(***************************************************************************)
(* The entry header of create_packfile on its own: one entry written for   *)
(* a stored object, or the header alone for sizes too large to store       *)
(***************************************************************************)
MaxSize == 1073741824

PayloadLengths == {0, 1, 15, 16, 17, 2047, 2048}

HeaderSizes == {0, 15, 16, 2047, 2048, 262143, 262144, 33554431, 33554432, MaxSize}

\* the store of an object of type tag t: "<type> <len>\0" and the payload
StoreOf(t, payload) ==
    (IF t = 1 THEN COMMIT_TAG ELSE IF t = 2 THEN TREE_TAG ELSE BLOB_TAG)
        \o DecStr(Len(payload)) \o <<0>> \o payload

InitHeader ==
    /\ project_path = None
    /\ req = [r \in Requests |-> NewRequest("off")]
    /\ fs = {}
    /\ world = [p \in Projects |-> W_absent]
    /\ bodies = {}
    /\ \/ \E t \in 1..3, n \in PayloadLengths, seed \in 0..MaxSeed :
            fn_in = <<[op |-> "entry", type |-> t, len |-> n, seed |-> seed]>>
       \/ \E t \in 1..3, n \in HeaderSizes :
            fn_in = <<[op |-> "header", type |-> t, len |-> n, seed |-> 0]>>
    /\ fn_out = <<>>

\* the loop body of create_packfile on the store of one object
call_pack_entry ==
    /\ fn_in # <<>> /\ fn_in[1].op = "entry"
    /\ fn_out = <<>>
    /\ fn_out' = <<PackEntry(<<ZERO_HASH, StoreOf(fn_in[1].type, Data(fn_in[1].len, fn_in[1].seed))>>)>>
    /\ UNCHANGED <<project_path, req, fs, world, bodies, fn_in>>

\* the size and type header of create_packfile for a given type and size
call_obj_header ==
    /\ fn_in # <<>> /\ fn_in[1].op = "header"
    /\ fn_out = <<>>
    /\ fn_out' = <<ObjHeader(fn_in[1].type, fn_in[1].len)>>
    /\ UNCHANGED <<project_path, req, fs, world, bodies, fn_in>>

NextHeader == call_pack_entry \/ call_obj_header

SpecHeader == InitHeader /\ [][NextHeader]_vars

(***************************************************************************)
(* Every response the server frames: one request against each kind of      *)
(* project, and format_pack_response on packs of one chunk and more        *)
(***************************************************************************)
InitWire ==
    \/ InitSingle
    \/ /\ project_path = None
       /\ req = [r \in Requests |-> NewRequest("off")]
       /\ fs = {}
       /\ world = [p \in Projects |-> W_absent]
       /\ bodies = {}
       /\ \E n \in Lengths : fn_in = <<[len |-> n, seed |-> 0]>>
       /\ fn_out = <<>>

\* fn_out = format_pack_response(pack_data)
call_format_pack_response ==
    /\ fn_in # <<>>
    /\ fn_out = <<>>
    /\ fn_out' = <<format_pack_response(Data(fn_in[1].len, fn_in[1].seed))>>
    /\ UNCHANGED <<project_path, req, fs, world, bodies, fn_in>>

NextWire == Next \/ call_format_pack_response

SpecWire == InitWire /\ [][NextWire]_vars

(***************************************************************************)
(* What a git client reads: packet-lines, side-band, pack, objects         *)
(***************************************************************************)
IsLowerHex(c) == (c >= 48 /\ c <= 57) \/ (c >= 97 /\ c <= 102)

\* the value of a 4-digit lowercase hex length field, -1 if it is not one
LengthField(f) ==
    IF Len(f) = 4 /\ \A i \in 1..4 : IsLowerHex(f[i])
    THEN 4096 * HexVal(f[1]) + 256 * HexVal(f[2]) + 16 * HexVal(f[3]) + HexVal(f[4])
    ELSE -1

RECURSIVE ReadPktLines(_, _)
\* the packet-lines of stream s from offset pos: flush, data (payload), or bad
\* for a remainder that is no packet-line
ReadPktLines(s, pos) ==
    IF pos >= Len(s) THEN <<>>
    ELSE LET n == LengthField(SubSeq(s, pos + 1, Min(pos + 4, Len(s))))
         IN  IF n = 0
             THEN <<[kind |-> "flush", payload |-> <<>>]>> \o ReadPktLines(s, pos + 4)
             ELSE IF n < 4 \/ pos + n > Len(s)
             THEN <<[kind |-> "bad", payload |-> <<>>]>>
             ELSE <<[kind |-> "data", payload |-> SubSeq(s, pos + 5, pos + n)]>>
                  \o ReadPktLines(s, pos + n)

\* the packets end with the only flush packet, and none is malformed
EndsWithOnlyFlush(pk) ==
    /\ Len(pk) >= 1
    /\ pk[Len(pk)].kind = "flush"
    /\ \A i \in 1..(Len(pk) - 1) : pk[i].kind = "data"

\* the bytes of band 1: every data packet without its band byte, in order
Band1Bytes(pk) ==
    Flatten([i \in 1..Len(pk) |-> IF pk[i].kind = "data" THEN Tail(pk[i].payload) ELSE <<>>])

\* every data packet carries band byte 1
AllBand1(pk) ==
    \A i \in 1..Len(pk) : pk[i].kind = "data" => (pk[i].payload # <<>> /\ pk[i].payload[1] = 1)

RECURSIVE ReadSize(_, _, _, _)
\* the size bits that follow the first byte of an entry header
ReadSize(s, pos, size, weight) ==
    IF pos >= Len(s) THEN [ok |-> FALSE, size |-> size, next |-> pos]
    ELSE LET b == s[pos + 1]
         IN  IF b >= 128 THEN ReadSize(s, pos + 1, size + (b % 128) * weight, weight * 128)
             ELSE [ok |-> TRUE, size |-> size + b * weight, next |-> pos + 1]

\* type and size of the entry at pos
ReadObjHeader(s, pos) ==
    IF pos >= Len(s) THEN [ok |-> FALSE, type |-> 0, size |-> 0, next |-> pos]
    ELSE LET b == s[pos + 1]
         IN  IF b >= 128
             THEN LET t == ReadSize(s, pos + 1, b % 16, 16)
                  IN  [ok |-> t.ok, type |-> (b \div 16) % 8, size |-> t.size, next |-> t.next]
             ELSE [ok |-> TRUE, type |-> (b \div 16) % 8, size |-> b % 16, next |-> pos + 1]

\* zlib.decompress of the stream at pos
Inflate(s, pos) ==
    IF pos + 11 > Len(s) \/ SubSeq(s, pos + 1, pos + 3) # <<120, 156, 1>>
    THEN [ok |-> FALSE, data |-> <<>>, next |-> pos]
    ELSE LET n    == s[pos + 4] + 256 * s[pos + 5]
             data == SubSeq(s, pos + 8, pos + 7 + n)
         IN  IF /\ s[pos + 6] = 255 - s[pos + 4]
                /\ s[pos + 7] = 255 - s[pos + 5]
                /\ pos + 11 + n <= Len(s)
                /\ SubSeq(s, pos + 8 + n, pos + 11 + n) = adler32(data)
             THEN [ok |-> TRUE, data |-> data, next |-> pos + 11 + n]
             ELSE [ok |-> FALSE, data |-> <<>>, next |-> pos]

RECURSIVE ReadEntries(_, _, _)
\* the next n entries of the pack from pos: (type, payload), and where they end
ReadEntries(s, pos, n) ==
    IF n = 0 THEN [ok |-> TRUE, entries |-> <<>>, next |-> pos]
    ELSE LET h == ReadObjHeader(s, pos)
             z == Inflate(s, h.next)
             t == ReadEntries(s, z.next, n - 1)
         IN  IF h.ok /\ z.ok /\ h.size = Len(z.data) /\ h.type \in {1, 2, 3}
             THEN [ok |-> t.ok, entries |-> <<[type |-> h.type, payload |-> z.data]>> \o t.entries,
                   next |-> t.next]
             ELSE [ok |-> FALSE, entries |-> <<>>, next |-> pos]

\* a pack read as index-pack reads it: magic, version 2, the count, that many
\* entries, and a trailer that is the digest of everything before it
ReadPack(s) ==
    IF Len(s) < 32 \/ SubSeq(s, 1, 8) # PACK_MAGIC \o <<0, 0, 0, 2>> \/ s[9] # 0 \/ s[10] # 0
    THEN [ok |-> FALSE, entries |-> <<>>]
    ELSE LET e == ReadEntries(s, 12, 256 * s[11] + s[12])
         IN  IF /\ e.ok
                /\ e.next + 20 = Len(s)
                /\ SubSeq(s, e.next + 1, Len(s)) = sha1(SubSeq(s, 1, e.next))
             THEN [ok |-> TRUE, entries |-> e.entries]
             ELSE [ok |-> FALSE, entries |-> <<>>]

TypeTag(t) == IF t = 1 THEN COMMIT_TAG ELSE IF t = 2 THEN TREE_TAG ELSE BLOB_TAG

\* the identity of a pack entry: the digest of "<type> <len>\0<payload>"
EntryId(e) == hexdigest(TypeTag(e.type) \o DecStr(Len(e.payload)) \o <<0>> \o e.payload)

RECURSIVE TreeTargets(_, _)
\* the identities a tree payload references, from offset pos
TreeTargets(payload, pos) ==
    LET rest == PySlice(payload, pos, Len(payload))
        nul  == find(rest, 0)
    IN  IF rest = <<>> \/ nul = -1 \/ pos + nul + 21 > Len(payload) THEN <<>>
        ELSE LET d == SubSeq(payload, pos + nul + 2, pos + nul + 21)
                 h == [i \in 1..40 |-> IF i % 2 = 1 THEN HexDigit(d[(i + 1) \div 2] \div 16)
                                       ELSE HexDigit(d[i \div 2] % 16)]
             IN  <<h>> \o TreeTargets(payload, pos + nul + 21)

\* the tree a commit payload names: the 40 characters after "tree "
CommitTree(payload) == SubSeq(payload, 6, 45)

\* the response of generate_pack is whole: "NAK\n", then side-band packets of
\* band 1 carrying a well-formed pack, then the only flush packet
CompleteResponse(resp) ==
    LET pk == ReadPktLines(resp, 0)
    IN  /\ Len(pk) >= 3
        /\ pk[1] = [kind |-> "data", payload |-> NAK]
        /\ EndsWithOnlyFlush(pk)
        /\ AllBand1(Tail(pk))
        /\ ReadPack(Band1Bytes(Tail(pk))).ok

\* the project of request r yields no usable files
NoUsableFiles(r) ==
    LET w == world[req[r].project]
    IN  \/ w.kind \in {"absent", "raises", "no_stack", "no_outdir"}
        \/ w.files = <<>>
        \/ \E i \in 1..Len(w.files) : ~w.files[i].readable

\* generate_pack / get_refs of request r has returned
Returned(r) == req[r].pc \in {"respond", "done"} /\ req[r].header_ok

(***************************************************************************)
(* Claims                                                                  *)
(***************************************************************************)

\* C1: when get_refs or generate_pack returns, the scratch directory that
\* synthesize created with tempfile.mkdtemp no longer exists, on every path.
C1_ScratchReleased ==
    \A r \in Requests : (Returned(r) /\ req[r].made) => TempDir(r) \notin fs

\* C2: a request synthesizes the main.py of the project named in its own
\* URL, whatever other request runs between its set_project_path and its
\* get_project_dir.
C2_OwnProject ==
    \A r \in Requests : req[r].code # None => req[r].code = req[r].project

\* C3: generate_pack returns None or a complete response ("NAK\n", side-band
\* packets carrying a whole pack with a valid trailer, one flush); with an
\* empty want-list, a missing main.py, no synthesis output, zero files or an
\* exception it returns None.
C3_AllOrNothing ==
    \A r \in Requests :
        (req[r].kind = "fetch" /\ Returned(r)) =>
            /\ req[r].result = <<>> \/ CompleteResponse(req[r].result[1])
            /\ (req[r].wants = <<>> \/ NoUsableFiles(r)) => req[r].result = <<>>

\* a fetch has returned a response
C3_Witness ==
    \E r \in Requests :
        req[r].kind = "fetch" /\ req[r].pc = "done" /\ req[r].result # <<>>

StageOrder == <<"ParseRequest", "Synthesize", "BuildObjects", "EncodePack", "FormatResponse">>

\* C4: the stages of a fetch are entered in the order ParseRequest,
\* Synthesize, BuildObjects, EncodePack, FormatResponse, each at most once,
\* none after a failure; with an empty want-list synthesis is never invoked
\* and the result is None.
C4_StagesInOrder ==
    \A r \in Requests :
        LET q == req[r]
        IN  (q.kind = "fetch" /\ q.header_ok) =>
              /\ Len(q.stages) <= 5 /\ q.stages = SubSeq(StageOrder, 1, Len(q.stages))
              /\ q.failure = "no_wants" => Len(q.stages) = 1
              /\ q.failure \in {"no_main", "synth_none"} => Len(q.stages) = 2
              /\ q.failure = "no_files" => Len(q.stages) = 3
              /\ q.failure = "exception" => Len(q.stages) \in {2, 3}
              /\ (q.pc # "parse" /\ q.wants = <<>>) =>
                     (~q.made /\ q.code = None /\ q.result = <<>> /\ q.stages = <<"ParseRequest">>)

\* a fetch has gone through all five stages and returned its response
C4_Witness ==
    \E r \in Requests :
        req[r].pc = "done" /\ req[r].stages = StageOrder /\ req[r].result # <<>>

\* C5: the packet-line scan of parse_request terminates for every request
\* body, because every iteration of its loop either stops the scan or moves
\* the scan position strictly forward.
C5_ScanAdvances ==
    [][\A r \in Requests :
          (req[r].pc = "parse" /\ req'[r].pc = "parse") => req'[r].pos > req[r].pos]_vars

\* the advertisement read back: service line, flush, HEAD line with the
\* capabilities, refs/heads/main line with the same identity, flush
IsAdvertisement(resp, id) ==
    LET pk == ReadPktLines(resp, 0)
    IN  /\ Len(pk) = 5
        /\ pk[1] = [kind |-> "data", payload |-> SERVICE]
        /\ pk[2].kind = "flush"
        /\ pk[3] = [kind |-> "data", payload |-> id \o HEAD_SUFFIX \o <<0>> \o CAPABILITIES \o <<10>>]
        /\ pk[4] = [kind |-> "data", payload |-> id \o MAIN_SUFFIX]
        /\ pk[5].kind = "flush"

\* C6: get_refs never raises and returns a complete advertisement; when
\* synthesis gives nothing usable (none, an exception, unreadable main.py or
\* file, zero files) both lines carry the identity of 40 zeros.
C6_RefsAlwaysAdvertise ==
    \A r \in Requests :
        req[r].kind = "refs" =>
            /\ ~req[r].raised
            /\ (req[r].pc = "done" /\ req[r].header_ok) =>
                  /\ req[r].status = 200
                  /\ req[r].result # <<>>
                  /\ IsAdvertisement(req[r].result[1], SubSeq(req[r].result[1], 39, 78))
                  /\ NoUsableFiles(r) => IsAdvertisement(req[r].result[1], ZERO_HASH)

\* a discovery request on a project without usable files was answered
C6_Witness ==
    \E r \in Requests :
        /\ req[r].kind = "refs" /\ req[r].pc = "done" /\ req[r].header_ok
        /\ NoUsableFiles(r)
        /\ req[r].failure = "exception"
        /\ req[r].result # <<>>

\* C7: the fetch endpoint answers a wrong content type or an empty want-list
\* with a 4xx status, and a failure of synthesis or of reading a file with a
\* 5xx status.
C7_StatusClasses ==
    \A r \in Requests :
        (req[r].kind = "fetch" /\ req[r].pc = "done") =>
            /\ ~req[r].header_ok => req[r].status \in 400..499
            /\ (req[r].header_ok /\ req[r].wants = <<>>) => req[r].status \in 400..499
            /\ req[r].failure \in {"synth_none", "exception"} => req[r].status \in 500..599

\* C8: the pack holds exactly the commit, the tree it names and the blobs
\* that tree references, each identity once; the header count is the number
\* of entries; with one file there are 3 objects.
C8_ExactObjectSet ==
    \A r \in Requests :
        (req[r].kind = "fetch" /\ req[r].pack_data # <<>>) =>
            LET p       == ReadPack(req[r].pack_data)
                n       == Len(p.entries)
                ids     == [i \in 1..n |-> EntryId(p.entries[i])]
                commits == {i \in 1..n : p.entries[i].type = 1}
                trees   == {i \in 1..n : p.entries[i].type = 2}
                blobs   == {i \in 1..n : p.entries[i].type = 3}
            IN  /\ p.ok
                /\ \A i, j \in 1..n : ids[i] = ids[j] => i = j
                /\ Cardinality(commits) = 1
                /\ Cardinality(trees) = 1
                /\ \A c \in commits, t \in trees :
                      /\ CommitTree(p.entries[c].payload) = ids[t]
                      /\ LET targets == TreeTargets(p.entries[t].payload, 0)
                         IN  {ids[b] : b \in blobs} = {targets[k] : k \in 1..Len(targets)}
                /\ Len(world[req[r].code].files) = 1 => n = 3

\* C9: format_side_band(d) ends with the only flush packet, every other
\* packet carries band 1, and the packet bodies without length and band
\* byte concatenate to d.
C9_SideBandInverse ==
    fn_out # <<>> =>
        LET pk == ReadPktLines(fn_out[1], 0)
        IN  /\ EndsWithOnlyFlush(pk)
            /\ AllBand1(pk)
            /\ Band1Bytes(pk) = Data(fn_in[1].len, fn_in[1].seed)

\* format_side_band has run on an input that is exactly one full chunk
C9_Witness == fn_out # <<>> /\ fn_in[1].len = chunk_size

\* C10: every packet-line of format_side_band, length prefix and band byte
\* included, is at most 65,520 bytes, and its length field is its size.
C10_PacketWithinMax ==
    fn_out # <<>> =>
        LET pk == ReadPktLines(fn_out[1], 0)
        IN  \A i \in 1..Len(pk) :
                /\ pk[i].kind # "bad"
                /\ pk[i].kind = "data" => 4 + Len(pk[i].payload) <= 65520

\* the number of bytes the first k pieces are sent as
FrameOffset(pieces, k) == Len(FramedBody(SubSeq(pieces, 1, k)))

RECURSIVE WantIds(_, _)
\* the identities of the want pieces among the first k pieces, in order
WantIds(pieces, k) ==
    IF k = 0 THEN <<>>
    ELSE IF pieces[k].kind = "want" THEN Append(WantIds(pieces, k - 1), pieces[k].id)
    ELSE WantIds(pieces, k - 1)

\* C11: scanning a body framed from payloads, parse_request reads each
\* packet body equal to the payload that was framed, and for want lines
\* "want <id>" with any trailer and flush packets between them it returns
\* the identities in order, none lost and none added.
C11_FrameRoundTrip ==
    \A r \in Requests :
        (fn_in # <<>> /\ req[r].kind = "fetch") =>
            LET pieces == fn_in[1]
                q      == req[r]
            IN  IF q.pc = "parse"
                THEN \E k \in 0..Len(pieces) :
                        /\ q.pos = FrameOffset(pieces, k)
                        /\ q.wants = WantIds(pieces, k)
                        /\ (k > 0 /\ pieces[k].kind # "flush") => q.packet = pieces[k].payload
                ELSE q.wants = WantIds(pieces, Len(pieces))

\* the scan has returned both identities of a body "want", flush, "want"
\* with a trailer
C11_Witness ==
    /\ fn_in # <<>>
    /\ Len(fn_in[1]) = 3
    /\ fn_in[1][1].kind = "want" /\ fn_in[1][2].kind = "flush" /\ fn_in[1][3].kind = "want"
    /\ fn_in[1][3].id = id_mixed
    /\ req["r1"].pc # "parse"
    /\ req["r1"].wants = <<fn_in[1][1].id, id_mixed>>

RECURSIVE TreePaths(_, _)
\* the paths of a tree payload from offset pos, in the order they are stored:
\* each entry is mode, space, path, null byte, 20 bytes
TreePaths(payload, pos) ==
    IF pos >= Len(payload) THEN <<>>
    ELSE LET rest == SubSeq(payload, pos + 1, Len(payload))
             sp   == find(rest, 32)
             nul  == find(rest, 0)
         IN  IF sp = -1 \/ nul = -1 \/ nul < sp THEN <<<<>>>>
             ELSE <<SubSeq(rest, sp + 2, nul)>> \o TreePaths(payload, pos + nul + 21)

\* list s in the order p
Permuted(s, p) == [i \in 1..Len(s) |-> s[p[i]]]

\* C12: the payload of create_tree lists the paths in strictly ascending
\* order, holds every path of the input, and payload and identity are the
\* same for every permutation of the input list.
C12_CanonicalTree ==
    fn_out # <<>> =>
        LET objects == fn_in[1]
            tree    == fn_out[1]
            paths   == TreePaths(StripHeader(tree[2]), 0)
        IN  /\ Len(paths) = Len(objects)
            /\ {paths[i] : i \in 1..Len(paths)} = {encode_utf8(objects[i][1]) : i \in 1..Len(objects)}
            /\ \A i \in 1..(Len(paths) - 1) : LexLess(paths[i], paths[i + 1])
            /\ \A p \in Orders(Len(objects)) : create_tree(Permuted(objects, p)) = tree

\* create_tree was given "b.txt" then "a.txt" and stored "a.txt" first
C12_Witness ==
    /\ fn_out # <<>>
    /\ Len(fn_in[1]) = 2 /\ fn_in[1][1][1] = b_txt /\ fn_in[1][2][1] = a_txt
    /\ TreePaths(StripHeader(fn_out[1][2]), 0) = <<a_txt, b_txt>>

\* C13: two fetches that read the same synthesis output and both decoded a
\* non-empty want-list returned byte-identical results from generate_pack,
\* whatever their want-lists are.
C13_WantsOnlyGate ==
    \A r, t \in Requests :
        ( /\ req[r].kind = "fetch" /\ req[t].kind = "fetch"
          /\ req[r].pc = "done" /\ req[t].pc = "done"
          /\ req[r].header_ok /\ req[t].header_ok
          /\ req[r].wants # <<>> /\ req[t].wants # <<>>
          /\ req[r].code = req[t].code )
        => req[r].result = req[t].result

\* two fetches with different non-empty want-lists were both answered with
\* a pack of the same two-file output
C13_Witness ==
    /\ req["r1"].pc = "done" /\ req["r2"].pc = "done"
    /\ req["r1"].wants = <<id_a>> /\ req["r2"].wants = <<id_b, id_a>>
    /\ req["r1"].result # <<>> /\ req["r2"].result # <<>>
    /\ req["r1"].code = req["r2"].code
    /\ Len(req["r1"].objects) = 2

RECURSIVE Shift7(_, _)
\* n >> (7 * k)
Shift7(n, k) == IF k = 0 THEN n ELSE Shift7(n \div 128, k - 1)

\* the bytes e start with the header of type t and size s, bit for bit
HeaderShape(e, t, s) ==
    LET h == ReadObjHeader(e, 0)
    IN  /\ h.ok /\ h.type = t /\ h.size = s
        /\ e[1] = t * 16 + (s % 16) + (IF s >= 16 THEN 128 ELSE 0)
        /\ \A k \in 2..h.next :
              /\ e[k] % 128 = Shift7(s \div 16, k - 2) % 128
              /\ e[k] >= 128 <=> k < h.next
        /\ h.next > 1 => e[h.next] # 0

\* C14: the header create_packfile writes for type t and size s reads back
\* as (t, s): first byte (t << 4) | (s & 0xF) with bit 7 set exactly when
\* s >= 16, then the 7-bit groups of s >> 4 from the least significant one,
\* bit 7 set on all but the last, the last group not zero; and s is the
\* length of the payload after the store prefix.
C14_HeaderRoundTrip ==
    fn_out # <<>> =>
        LET a == fn_in[1]
            e == fn_out[1]
        IN  /\ HeaderShape(e, a.type, a.len)
            /\ a.op = "header" => ReadObjHeader(e, 0).next = Len(e)
            /\ a.op = "entry" =>
                  LET z == Inflate(e, ReadObjHeader(e, 0).next)
                  IN  z.ok /\ z.next = Len(e) /\ z.data = Data(a.len, a.seed)

\* an entry was written for a tree of 2048 bytes: a header of three bytes
C14_Witness ==
    /\ fn_out # <<>>
    /\ fn_in[1].op = "entry" /\ fn_in[1].type = 2 /\ fn_in[1].len = 2048
    /\ SubSeq(fn_out[1], 1, 3) = <<160, 128, 1>>

\* the scan of request r stands at a length field that cannot be parsed, or
\* at a want packet whose identity cannot be decoded
AtUndecodable(r) ==
    LET data   == req[r].body
        pos    == req[r].pos
        field  == PySlice(data, pos, pos + 4)
        length == int16(field)
        packet == PySlice(data, pos + 4, pos + length.value)
    IN  /\ req[r].pc = "parse"
        /\ pos < Len(data)
        /\ \/ ~IsAscii(field)
           \/ ~length.ok
           \/ /\ length.value # 0
              /\ startswith(packet, WANT_TAG)
              /\ ~IsAscii(PySlice(packet, 5, 45))

\* C15: at a length field it cannot parse or a want packet it cannot decode,
\* parse_request stops scanning and returns exactly the wants found before,
\* without raising; no iteration ever drops or reorders wants already found.
C15_StopKeepsWants ==
    [][\A r \in Requests :
          /\ (AtUndecodable(r) /\ req'[r] # req[r]) =>
                /\ req'[r].pc # "parse"
                /\ req'[r].wants = req[r].wants
                /\ ~req'[r].raised
          /\ req[r].pc = "parse" =>
                /\ Len(req'[r].wants) >= Len(req[r].wants)
                /\ SubSeq(req'[r].wants, 1, Len(req[r].wants)) = req[r].wants]_vars

\* the scan stopped at "zzzz" after one want line and returned its identity
C15_Witness ==
    /\ req["r1"].pc = "synth"
    /\ req["r1"].pos = Len(want_a)
    /\ PySlice(req["r1"].body, req["r1"].pos, req["r1"].pos + 4) = <<122, 122, 122, 122>>
    /\ req["r1"].wants = <<id_a>>

\* resp is a sequence of packet-lines and nothing else: every length field
\* is 4 lowercase hex digits and is the size of its packet, with no byte
\* left over
WellFramed(resp) ==
    LET pk == ReadPktLines(resp, 0)
    IN  /\ Len(pk) >= 1
        /\ \A i \in 1..Len(pk) : pk[i].kind # "bad"
        /\ Len(resp) = Len(Flatten([i \in 1..Len(pk) |->
                                       IF pk[i].kind = "flush" THEN FLUSH
                                       ELSE FLUSH \o pk[i].payload]))

\* C16: a response of get_refs is the service line, a flush, the HEAD line
\* (identity, " HEAD", null byte, capabilities), the refs/heads/main line
\* with the same identity, and a flush; and every length field of a response
\* of get_refs or format_pack_response is 4 lowercase hex digits giving the
\* size of its packet, the 4 length bytes included.
C16_WireFormat ==
    /\ \A r \in Requests :
          (req[r].pc = "done" /\ req[r].result # <<>>) =>
              /\ WellFramed(req[r].result[1])
              /\ req[r].kind = "refs" =>
                    /\ Len(req[r].commit_hash) = 40
                    /\ IsAdvertisement(req[r].result[1], req[r].commit_hash)
    /\ fn_out # <<>> =>
          /\ WellFramed(fn_out[1])
          /\ SubSeq(fn_out[1], 1, 8) = <<48, 48, 48, 56>> \o NAK

\* get_refs has advertised the commit of a synthesized project
C16_Witness ==
    \E r \in Requests :
        /\ req[r].kind = "refs" /\ req[r].pc = "done" /\ req[r].result # <<>>
        /\ req[r].commit_hash # ZERO_HASH
        /\ Len(req[r].objects) = 2

\* the pack carried by a response of generate_pack, as a client reads it
PackOf(resp) == ReadPack(Band1Bytes(Tail(ReadPktLines(resp, 0))))

\* the entries of pack p hold the commit id, the tree it names, and every
\* blob that tree references
ClosedFrom(p, id) ==
    \E c \in 1..Len(p.entries) :
        /\ p.entries[c].type = 1
        /\ EntryId(p.entries[c]) = id
        /\ \E t \in 1..Len(p.entries) :
              /\ p.entries[t].type = 2
              /\ EntryId(p.entries[t]) = CommitTree(p.entries[c].payload)
              /\ LET targets == TreeTargets(p.entries[t].payload, 0)
                 IN  /\ Len(targets) >= 1
                     /\ \A k \in 1..Len(targets) :
                           \E b \in 1..Len(p.entries) :
                               p.entries[b].type = 3 /\ EntryId(p.entries[b]) = targets[k]

\* C17: when get_refs and generate_pack have both answered for the same
\* synthesis output of at least one file, the identity in the advertisement
\* is the identity of a commit in the pack, and the tree of that commit and
\* the blobs of that tree are in the same pack.
C17_AdvertisedIsPacked ==
    \A r, t \in Requests :
        ( /\ req[r].kind = "refs" /\ req[r].pc = "done" /\ req[r].result # <<>>
          /\ req[t].kind = "fetch" /\ req[t].pc = "done" /\ req[t].result # <<>>
          /\ req[r].code = req[t].code )
        => LET adv == SubSeq(req[r].result[1], 39, 78)
               p   == PackOf(req[t].result[1])
           IN  /\ adv # ZERO_HASH
               /\ p.ok
               /\ ClosedFrom(p, adv)

\* a discovery and a fetch of the project with two identical files have
\* both been answered
C17_Witness ==
    /\ req["r1"].kind = "refs" /\ req["r1"].pc = "done" /\ req["r1"].result # <<>>
    /\ req["r2"].kind = "fetch" /\ req["r2"].pc = "done" /\ req["r2"].result # <<>>
    /\ req["r1"].code = "P" /\ req["r2"].code = "P"

\* an identity: exactly 40 hexadecimal characters
IsIdentity(w) == Len(w) = 40 /\ \A i \in 1..40 : IsHexChar(w[i])

\* C18: every element of the want-list of parse_request is an identity of
\* exactly 40 hexadecimal characters, so a fetch passes the empty-want-list
\* gate only with such an identity.
C18_WantsAreIdentities ==
    \A r \in Requests :
        /\ \A i \in 1..Len(req[r].wants) : IsIdentity(req[r].wants[i])
        /\ req[r].pc = "synth" => \E i \in 1..Len(req[r].wants) : IsIdentity(req[r].wants[i])

====
